---- MODULE Spec2Model ----
(***************************************************************************)
(* IPClusterEngine (crosscat/IPClusterEngine.py): seed sequencing and the  *)
(* fan-out / fan-in of chain tasks over an IPython.parallel DirectView.    *)
(*                                                                         *)
(* The orchestrator is single-threaded.  initialize / analyze push the     *)
(* shared context to every engine of the view, mint one seed per chain,    *)
(* map the worker entry point over the per-chain arguments and reassemble  *)
(* the per-chain results.  The view is non-blocking (Client's default):    *)
(* push and map only enqueue one message per engine; every engine serves   *)
(* its own queue in order; iterating the map result blocks the caller.     *)
(***************************************************************************)
EXTENDS Integers, Sequences, FiniteSets, TLC

\* ---------------------------------------------------------------- bounds
\* engines of the view self.rc[:]
NumEngines == 2
\* largest n_chains / longest batch a caller passes
MaxChains == 3
\* calls of the engine's methods in one run
MaxCalls == 2
\* most seeds one call of a predictive / imputation method draws
MaxDraws == 1

\* __init__(self, config_filename, seed=0, ...): the seed the engine starts at
DefaultSeed == 0

Engines == 1..NumEngines

\* ---------------------------------------------------------- Python values
\* X_L of one chain is a dict, X_D of one chain is the row partition; a batch
\* is a list or tuple of them.  hist is the chain's derivation: the seeds of
\* the initialisation and of every transition applied since (the inference
\* engine is a pure function of its arguments and the seed).
Dict(h) == [type |-> "dict", hist |-> h, items |-> <<>>]

Rows(h) == [type |-> "rows", hist |-> h, items |-> <<>>]

PySeq(s) == [type |-> "seq", hist |-> <<>>, items |-> s]

\* isinstance(x, (list, tuple))
IsSequence(x) == x.type = "seq"

\* a chain the caller holds: its latent state and its partition state
Chain(h) == [L |-> Dict(h), D |-> Rows(h)]

\* a state built outside the engine (X_L_gen, X_D_gen of the demo driver)
GenChain == Chain(<<>>)

NoValue == [type |-> "none", hist |-> <<>>, items |-> <<>>]

\* the names a push binds in the engines' namespace
InitializeNames == {"M_c", "M_r", "T", "initialization", "do_initialize"}

\* a bug: analyze leaves out the names initialize has pushed already
AnalyzeNames_rest == {"kernel_list", "n_steps", "c", "r", "max_iterations", "max_time"}

AnalyzeNames == {"M_c", "T", "kernel_list", "n_steps", "c", "r", "max_iterations", "max_time"}

Names == InitializeNames \cup AnalyzeNames

\* the names the worker entry points read
InitializeReads == {"M_c", "M_r", "T", "initialization"}

AnalyzeReads == {"M_c", "T", "kernel_list", "n_steps", "c", "r", "max_iterations", "max_time"}

\* ------------------------------------------------------------- sequences
Range(s) == {s[i] : i \in DOMAIN s}

\* s[lo:hi] of Python, 0-based and half-open
Slice(s, lo, hi) == [i \in 1..(hi - lo) |-> s[lo + i]]

\* zip(a, b): as long as the shorter argument
Min(a, b) == IF a <= b THEN a ELSE b

ZipPairs(a, b) == [i \in 1..Min(Len(a), Len(b)) |-> <<a[i], b[i]>>]

\* zip(*pairs) of a non-empty list of pairs: the two parallel tuples
UnzipFirst(pairs) == [i \in 1..Len(pairs) |-> pairs[i][1]]

UnzipSecond(pairs) == [i \in 1..Len(pairs) |-> pairs[i][2]]

\* --------------------------------------------------------- SeedSequencer
\* get_next_seed of the base engine: hand out the counter, advance it by one
GetNextSeed(counter) == [seed |-> counter, next |-> counter + 1]

\* [self.get_next_seed() for seed_idx in range(n)]: n successive draws;
\* the seeds in draw order and the counter after the last draw
RECURSIVE DrawSeeds(_, _)
DrawSeeds(counter, n) ==
    IF n <= 0 THEN [seeds |-> <<>>, next |-> counter]
    ELSE LET d == GetNextSeed(counter)
             rest == DrawSeeds(d.next, n - 1)
         IN  [seeds |-> <<d.seed>> \o rest.seeds, next |-> rest.next]

\* a bug: get_next_seed() evaluated once, outside the comprehension
MintSeeds_once(counter, n) ==
    [seeds |-> [i \in 1..n |-> GetNextSeed(counter).seed],
     next |-> IF n > 0 THEN GetNextSeed(counter).next ELSE counter]

\* a bug: range(n + 1), one seed more than there are chains
MintSeeds_extra(counter, n) == DrawSeeds(counter, n + 1)

\* a bug: the seeds attached to the chains in reverse order
MintSeeds_reversed(counter, n) ==
    [seeds |-> [i \in 1..n |-> DrawSeeds(counter, n).seeds[n + 1 - i]],
     next |-> DrawSeeds(counter, n).next]

\* the seeds comprehension of initialize and analyze
MintSeeds(counter, n) == DrawSeeds(counter, n)

\* -------------------------------------------------------- ChainStateCodec
\* su.ensure_multistate: a sequence of latent states is a batch and must
\* come with a partition sequence of the same length; anything else is one
\* chain, wrapped in a list of length one
ensure_multistate(X_L, X_D) ==
    IF IsSequence(X_L)
    THEN IF IsSequence(X_D) /\ Len(X_L.items) = Len(X_D.items)
         THEN [error |-> "none", X_L_list |-> X_L.items, X_D_list |-> X_D.items,
               was_multistate |-> TRUE]
         ELSE [error |-> "InputShapeError", X_L_list |-> <<>>, X_D_list |-> <<>>,
               was_multistate |-> TRUE]
    ELSE [error |-> "none", X_L_list |-> <<X_L>>, X_D_list |-> <<X_D>>,
          was_multistate |-> FALSE]

\* a bug: the shape decided by the batch length, as initialize decides it
analyze_collapse_bylen(X_L_prime_list, X_D_prime_list, was_multistate) ==
    IF Len(X_L_prime_list) = 1
    THEN <<X_L_prime_list[1], X_D_prime_list[1]>>
    ELSE <<PySeq(X_L_prime_list), PySeq(X_D_prime_list)>>

\* a bug: the collapse taken for batches instead of single chains
analyze_collapse_negated(X_L_prime_list, X_D_prime_list, was_multistate) ==
    IF was_multistate
    THEN <<X_L_prime_list[1], X_D_prime_list[1]>>
    ELSE <<PySeq(X_L_prime_list), PySeq(X_D_prime_list)>>

\* analyze, "if not was_multistate": the first element of each tuple for a
\* single chain, the two tuples otherwise
analyze_collapse(X_L_prime_list, X_D_prime_list, was_multistate) ==
    IF ~was_multistate
    THEN <<X_L_prime_list[1], X_D_prime_list[1]>>
    ELSE <<PySeq(X_L_prime_list), PySeq(X_D_prime_list)>>

\* a bug: initialize never collapses
initialize_collapse_never(X_L_list, X_D_list, n_chains) ==
    <<PySeq(X_L_list), PySeq(X_D_list)>>

\* initialize, "if n_chains == 1"
initialize_collapse(X_L_list, X_D_list, n_chains) ==
    IF n_chains = 1
    THEN <<X_L_list[1], X_D_list[1]>>
    ELSE <<PySeq(X_L_list), PySeq(X_D_list)>>

\* ------------------------------------------------------------ TaskBuilder
\* one argument of a mapped call: the chain's state, if any, and its seed
Task(X_L, X_D, seed) == [X_L |-> X_L, X_D |-> X_D, seed |-> seed]

\* initialize maps do_initialize over the bare seeds
initialize_args(seeds) == [i \in 1..Len(seeds) |-> Task(NoValue, NoValue, seeds[i])]

\* a bug: the states paired with the seeds without the shape check
analyze_args_unchecked(norm, X_L, X_D, seeds) ==
    LET ls == IF IsSequence(X_L) THEN X_L.items ELSE <<X_L>>
        ds == IF IsSequence(X_D) THEN X_D.items ELSE <<X_D>>
        n  == Min(Len(ls), Len(ds))
    IN  [i \in 1..n |-> Task(ls[i], ds[i], IF i <= Len(seeds) THEN seeds[i] ELSE 0)]

\* analyze: zip(zip(X_L_list, X_D_list), seeds); nothing is built when
\* ensure_multistate raised
analyze_args(norm, X_L, X_D, seeds) ==
    IF norm.error # "none" THEN <<>>
    ELSE LET states == ZipPairs(norm.X_L_list, norm.X_D_list)
             zipped == ZipPairs(states, seeds)
         IN  [i \in 1..Len(zipped) |-> Task(zipped[i][1][1], zipped[i][1][2], zipped[i][2])]

\* -------------------------------------------------- DistributedDispatcher
\* the inference engine, a pure function of the chain and the seed
do_initialize(task) == <<Dict(<<task.seed>>), Rows(<<task.seed>>)>>

do_analyze(task) ==
    <<Dict(Append(task.X_L.hist, task.seed)), Rows(Append(task.X_D.hist, task.seed))>>

EntryPoint(f, task) == IF f = "do_initialize" THEN do_initialize(task) ELSE do_analyze(task)

EntryReads(f) == IF f = "do_initialize" THEN InitializeReads ELSE AnalyzeReads

\* the message a push leaves in an engine's queue
PushMsg(c, names) ==
    [kind |-> "push", call |-> c, names |-> names, f |-> "none", lo |-> 0, args |-> <<>>]

\* the message a map leaves in an engine's queue: its chunk of the arguments,
\* lo the position in the argument list before the chunk's first one
MapMsg(c, f, lo, args) ==
    [kind |-> "map", call |-> c, names |-> {}, f |-> f, lo |-> lo, args |-> args]

\* a bug: the chunks dealt to the engines from the far end of the list
GetPartition_backwards(n, p, q) ==
    LET basesize == n \div q
        remainder == n % q
        hi == IF p < remainder THEN n - p * (basesize + 1) ELSE n - p * basesize - remainder
        lo == IF p < remainder THEN hi - basesize - 1 ELSE hi - basesize
    IN  [lo |-> lo, hi |-> hi]

\* the view's map splits n arguments into q contiguous chunks, the first
\* n % q of them one longer; chunk p (from 0) is args[lo:hi]
GetPartition(n, p, q) ==
    LET basesize == n \div q
        remainder == n % q
        lo == IF p < remainder THEN p * (basesize + 1) ELSE p * basesize + remainder
        hi == IF p < remainder THEN lo + basesize + 1 ELSE lo + basesize
    IN  [lo |-> lo, hi |-> hi]

Chunk(args, e) ==
    LET part == GetPartition(Len(args), e - 1, NumEngines)
    IN  Slice(args, part.lo, part.hi)

\* self.view.push(dict(...)): one push message to every engine
view_push(q, c, names) == [e \in Engines |-> Append(q[e], PushMsg(c, names))]

\* a bug: the shared context sent again with every chunk of tasks
view_map_pushing(q, c, f, args) ==
    [e \in Engines |->
        IF Chunk(args, e) = <<>> THEN q[e]
        ELSE q[e] \o <<PushMsg(c, EntryReads(f)),
                       MapMsg(c, f, GetPartition(Len(args), e - 1, NumEngines).lo,
                              Chunk(args, e))>>]

\* a bug: the tasks sent ahead of the push
view_map_first(q, c, f, args) ==
    [e \in Engines |->
        IF Chunk(args, e) = <<>> THEN q[e]
        ELSE <<MapMsg(c, f, GetPartition(Len(args), e - 1, NumEngines).lo, Chunk(args, e))>>
             \o q[e]]

\* self.mapper(f, args): one map message to every engine whose chunk is not
\* empty
view_map(q, c, f, args) ==
    [e \in Engines |->
        IF Chunk(args, e) = <<>> THEN q[e]
        ELSE Append(q[e], MapMsg(c, f, GetPartition(Len(args), e - 1, NumEngines).lo,
                                 Chunk(args, e)))]

\* the tasks of call c waiting in, or served from, the queues q, in engine
\* order
RECURSIVE TasksOf(_, _, _)
TasksOf(q, c, e) ==
    IF e > NumEngines THEN <<>>
    ELSE LET mine == SelectSeq(q[e], LAMBDA m : m.kind = "map" /\ m.call = c)
         IN  (IF mine = <<>> THEN <<>> ELSE mine[1].args) \o TasksOf(q, c, e + 1)

\* ---------------------------------------------------------------- state
VARIABLES
    seed_generator,   \* the next seed get_next_seed hands out
    callNo,           \* method calls begun so far
    pc,               \* "idle", or "waiting" inside a call, iterating the map result
    call,             \* the call begun last: its inputs, seeds and arguments
    queue,            \* per engine, the messages not yet served, oldest first
    ns,               \* per engine and name, the call whose push bound it (0: unbound)
    res,              \* per engine, its chunk's outcome for the call begun last
    ret,              \* what the caller got from the call returned last
    held,             \* the chains the caller holds
    minted,           \* every seed handed to a task so far, in issue order
    drawn             \* seeds drawn so far by the predictive / imputation methods

vars == <<seed_generator, callNo, pc, call, queue, ns, res, ret, held, minted, drawn>>

NoRes == [st |-> "none", out |-> <<>>, at |-> 0, reads |-> {}]

PendingRes == [st |-> "pending", out |-> <<>>, at |-> 0, reads |-> {}]

NoCall ==
    [op |-> "none", no |-> 0, base |-> 0, X_L |-> NoValue, X_D |-> NoValue, n_chains |-> 0,
     was_multistate |-> FALSE, seeds |-> <<>>, args |-> <<>>, sent |-> <<>>]

NoRet ==
    [status |-> "none", op |-> "none", no |-> 0, X_L |-> NoValue, X_D |-> NoValue,
     error |-> "none", engine |-> 0]

\* __init__: the seed generator starts at the seed given; nothing is pushed
Init ==
    /\ seed_generator = DefaultSeed
    /\ callNo = 0
    /\ pc = "idle"
    /\ call = NoCall
    /\ queue = [e \in Engines |-> <<>>]
    /\ ns = [e \in Engines |-> [n \in Names |-> 0]]
    /\ res = [e \in Engines |-> NoRes]
    /\ ret = NoRet
    /\ held = <<GenChain>>
    /\ minted = <<>>
    /\ drawn = 0

\* ----------------------------------------------------------- the caller
\* what the caller passes to analyze: one chain it holds, or a batch made of
\* the first a latent states it holds and as many partition states, or one
\* partition state more or fewer
AnalyzeInputs ==
    {<<held[i].L, held[i].D>> : i \in 1..Len(held)}
    \cup {<<PySeq([i \in 1..ab[1] |-> held[i].L]), PySeq([i \in 1..ab[2] |-> held[i].D])>> :
            ab \in {x \in (0..Len(held)) \X (0..Len(held)) : x[2] - x[1] \in {-1, 0, 1}}}

\* the chains of a returned batch
Chains(X_L_list, X_D_list) ==
    [i \in 1..Len(X_L_list) |-> [L |-> X_L_list[i], D |-> X_D_list[i]]]

\* the engines the call begun last sent a chunk to
HasChunk(e) == res[e].st # "none"

\* ------------------------------------------------------------ initialize
\* lines 70-78: push, mint the seeds, map; the caller then blocks on the
\* map result
initialize(n_chains) ==
    /\ pc = "idle"
    /\ callNo < MaxCalls
    /\ LET c == callNo + 1
           pushed == view_push(queue, c, InitializeNames)
           m == MintSeeds(seed_generator, n_chains)
           args == initialize_args(m.seeds)
           mapped == view_map(pushed, c, "do_initialize", args)
           sent == TasksOf(mapped, c, 1)
       IN  /\ callNo' = c
           /\ queue' = mapped
           /\ seed_generator' = m.next
           /\ call' = [op |-> "initialize", no |-> c, base |-> seed_generator,
                       X_L |-> NoValue, X_D |-> NoValue, n_chains |-> n_chains,
                       was_multistate |-> FALSE, seeds |-> m.seeds, args |-> args,
                       sent |-> sent]
           /\ res' = [e \in Engines |->
                        IF \E i \in DOMAIN mapped[e] :
                              mapped[e][i].kind = "map" /\ mapped[e][i].call = c
                        THEN PendingRes ELSE NoRes]
           /\ minted' = minted \o [i \in 1..Len(sent) |-> sent[i].seed]
    /\ pc' = "waiting"
    /\ UNCHANGED <<ns, ret, held, drawn>>

\* --------------------------------------------------------------- analyze
\* lines 116-129: push, normalise the input, mint the seeds, pair, map.
\* ensure_multistate raising ends the call after the push
analyze(X_L, X_D) ==
    /\ pc = "idle"
    /\ callNo < MaxCalls
    /\ LET c == callNo + 1
           pushed == view_push(queue, c, AnalyzeNames)
           norm == ensure_multistate(X_L, X_D)
           failed == norm.error # "none"
           m == IF failed THEN [seeds |-> <<>>, next |-> seed_generator]
                ELSE MintSeeds(seed_generator, Len(norm.X_L_list))
           args == analyze_args(norm, X_L, X_D, m.seeds)
           mapped == view_map(pushed, c, "do_analyze", args)
           sent == TasksOf(mapped, c, 1)
       IN  /\ callNo' = c
           /\ queue' = mapped
           /\ seed_generator' = m.next
           /\ call' = [op |-> "analyze", no |-> c, base |-> seed_generator,
                       X_L |-> X_L, X_D |-> X_D, n_chains |-> Len(norm.X_L_list),
                       was_multistate |-> norm.was_multistate, seeds |-> m.seeds,
                       args |-> args, sent |-> sent]
           /\ res' = [e \in Engines |->
                        IF \E i \in DOMAIN mapped[e] :
                              mapped[e][i].kind = "map" /\ mapped[e][i].call = c
                        THEN PendingRes ELSE NoRes]
           /\ minted' = minted \o [i \in 1..Len(sent) |-> sent[i].seed]
           /\ pc' = IF failed THEN "idle" ELSE "waiting"
           /\ ret' = IF failed
                     THEN [status |-> "error", op |-> "analyze", no |-> c, X_L |-> NoValue,
                           X_D |-> NoValue, error |-> norm.error, engine |-> 0]
                     ELSE ret
    /\ UNCHANGED <<ns, held, drawn>>

\* ------------------------------------------------------------ the engines
\* an engine serves a push: the names are bound in its namespace
engine_push(e) ==
    /\ queue[e] # <<>>
    /\ Head(queue[e]).kind = "push"
    /\ ns' = [ns EXCEPT ![e] =
                [n \in Names |-> IF n \in Head(queue[e]).names
                                 THEN Head(queue[e]).call ELSE ns[e][n]]]
    /\ queue' = [queue EXCEPT ![e] = Tail(queue[e])]
    /\ UNCHANGED <<seed_generator, callNo, pc, call, res, ret, held, minted, drawn>>

\* the engines whose namespace holds the push of call c
Pushed(c) == {e \in Engines : ns[e]["M_c"] >= c}

\* an engine serves its chunk and every task of it returns; the outcome
\* reaches the caller only while the call that mapped it is waiting
engine_run(e) ==
    /\ queue[e] # <<>>
    /\ Head(queue[e]).kind = "map"
    /\ \A n \in EntryReads(Head(queue[e]).f) : ns[e][n] # 0
    /\ LET m == Head(queue[e])
       IN  res' = IF m.call = call.no /\ pc = "waiting"
                  THEN [res EXCEPT ![e] =
                          [st |-> "ok",
                           out |-> [i \in 1..Len(m.args) |-> EntryPoint(m.f, m.args[i])],
                           at |-> 0,
                           reads |-> {ns[e][n] : n \in EntryReads(m.f)}]]
                  ELSE res
    /\ queue' = [queue EXCEPT ![e] = Tail(queue[e])]
    /\ UNCHANGED <<seed_generator, callNo, pc, call, ns, ret, held, minted, drawn>>

\* an engine serves its chunk and the j-th task of it raises: the chunk has
\* no result
engine_raise(e, j) ==
    /\ queue[e] # <<>>
    /\ Head(queue[e]).kind = "map"
    /\ j \in 1..Len(Head(queue[e]).args)
    /\ LET m == Head(queue[e])
       IN  res' = IF m.call = call.no /\ pc = "waiting"
                  THEN [res EXCEPT ![e] =
                          [st |-> "error", out |-> <<>>, at |-> m.lo + j,
                           reads |-> {ns[e][n] : n \in EntryReads(m.f)}]]
                  ELSE res
    /\ queue' = [queue EXCEPT ![e] = Tail(queue[e])]
    /\ UNCHANGED <<seed_generator, callNo, pc, call, ns, ret, held, minted, drawn>>

\* ------------------------------------------------------- ResultAssembler
\* iterating the map result: the chunks' results in engine order
RECURSIVE Gather(_, _)
Gather(r, e) == IF e > NumEngines THEN <<>> ELSE r[e].out \o Gather(r, e + 1)

\* lines 79-82: unzip, collapse
initialize_result(chain_tuples, n_chains) ==
    initialize_collapse(UnzipFirst(chain_tuples), UnzipSecond(chain_tuples), n_chains)

\* lines 130-133: unzip, collapse
analyze_result(chain_tuples, was_multistate) ==
    analyze_collapse(UnzipFirst(chain_tuples), UnzipSecond(chain_tuples), was_multistate)

\* what analyze returns for an input when the counter is at `counter` and no
\* task raises
analyze_returns(counter, X_L, X_D) ==
    LET norm == ensure_multistate(X_L, X_D)
        m == MintSeeds(counter, Len(norm.X_L_list))
        args == analyze_args(norm, X_L, X_D, m.seeds)
        chain_tuples == [i \in 1..Len(args) |-> do_analyze(args[i])]
    IN  analyze_result(chain_tuples, norm.was_multistate)

\* a bug: the call returns as soon as one chunk is back
chunks_ready_any(r) == \E e \in Engines : r[e].st = "ok"

\* a bug: the chunks that raised are skipped and the rest is assembled
chunks_ready_skipping(r) ==
    /\ \E e \in Engines : r[e].st = "ok"
    /\ \A e \in Engines : r[e].st # "pending"

\* the iteration over the map result ends without raising: something was
\* mapped and every chunk came back with its results
chunks_ready(r) ==
    /\ \E e \in Engines : r[e].st # "none"
    /\ \A e \in Engines : r[e].st # "none" => r[e].st = "ok"

\* a bug: the evolved states written into the objects the caller passed in
return_states_inplace ==
    /\ pc = "waiting"
    /\ chunks_ready(res)
    /\ LET chain_tuples == Gather(res, 1)
           out == IF call.op = "initialize"
                  THEN initialize_result(chain_tuples, call.n_chains)
                  ELSE analyze_result(chain_tuples, call.was_multistate)
       IN  /\ ret' = [status |-> "ok", op |-> call.op, no |-> call.no, X_L |-> out[1],
                      X_D |-> out[2], error |-> "none", engine |-> 0]
           /\ held' = Chains(UnzipFirst(chain_tuples), UnzipSecond(chain_tuples))
           /\ call' = [call EXCEPT !.X_L = out[1], !.X_D = out[2]]
    /\ pc' = "idle"
    /\ UNCHANGED <<seed_generator, callNo, queue, ns, res, minted, drawn>>

\* every chunk has come back: the call returns the assembled states
return_states ==
    /\ pc = "waiting"
    /\ chunks_ready(res)
    /\ LET chain_tuples == Gather(res, 1)
           out == IF call.op = "initialize"
                  THEN initialize_result(chain_tuples, call.n_chains)
                  ELSE analyze_result(chain_tuples, call.was_multistate)
       IN  /\ ret' = [status |-> "ok", op |-> call.op, no |-> call.no, X_L |-> out[1],
                      X_D |-> out[2], error |-> "none", engine |-> 0]
           /\ held' = Chains(UnzipFirst(chain_tuples), UnzipSecond(chain_tuples))
    /\ pc' = "idle"
    /\ UNCHANGED <<seed_generator, callNo, call, queue, ns, res, minted, drawn>>

\* nothing was mapped: zip(*[]) is empty and the unpacking into two names
\* raises ValueError
return_unpack_error ==
    /\ pc = "waiting"
    /\ \A e \in Engines : ~HasChunk(e)
    /\ ret' = [status |-> "error", op |-> call.op, no |-> call.no, X_L |-> NoValue,
               X_D |-> NoValue, error |-> "ValueError", engine |-> 0]
    /\ pc' = "idle"
    /\ UNCHANGED <<seed_generator, callNo, call, queue, ns, res, held, minted, drawn>>

\* a bug: the seed generator set back to where the failed call found it
return_remote_error_rollback(e) ==
    /\ pc = "waiting"
    /\ res[e].st = "error"
    /\ \A d \in Engines : d < e /\ HasChunk(d) => res[d].st = "ok"
    /\ ret' = [status |-> "error", op |-> call.op, no |-> call.no, X_L |-> NoValue,
               X_D |-> NoValue, error |-> "RemoteError", engine |-> e]
    /\ pc' = "idle"
    /\ seed_generator' = call.base
    /\ UNCHANGED <<callNo, call, queue, ns, res, held, minted, drawn>>

\* the first chunk, in engine order, that came back with an exception: the
\* iteration raises the pool's remote error, which names that engine; the
\* chunks behind it may still be queued or running
return_remote_error(e) ==
    /\ pc = "waiting"
    /\ res[e].st = "error"
    /\ \A d \in Engines : d < e /\ HasChunk(d) => res[d].st = "ok"
    /\ ret' = [status |-> "error", op |-> call.op, no |-> call.no, X_L |-> NoValue,
               X_D |-> NoValue, error |-> "RemoteError", engine |-> e]
    /\ pc' = "idle"
    /\ UNCHANGED <<seed_generator, callNo, call, queue, ns, res, held, minted, drawn>>

\* ------------------------------------------- the methods run on the caller
\* the methods that hand get_next_seed to the sampling utilities: they draw
\* seeds from the same generator and dispatch nothing
DrawLocally(d) ==
    /\ pc = "idle"
    /\ callNo < MaxCalls
    /\ callNo' = callNo + 1
    /\ seed_generator' = DrawSeeds(seed_generator, d).next
    /\ drawn' = drawn + d
    /\ UNCHANGED <<pc, call, queue, ns, res, ret, held, minted>>

simple_predictive_sample == \E d \in 1..MaxDraws : DrawLocally(d)

impute == \E d \in 1..MaxDraws : DrawLocally(d)

impute_and_confidence == \E d \in 1..MaxDraws : DrawLocally(d)

\* ------------------------------------------------------- specification
Next ==
    \/ \E n_chains \in 0..MaxChains : initialize(n_chains)
    \/ \E input \in AnalyzeInputs : analyze(input[1], input[2])
    \/ \E e \in Engines : engine_push(e)
    \/ \E e \in Engines : engine_run(e)
    \/ \E e \in Engines, j \in 1..MaxChains : engine_raise(e, j)
    \/ return_states
    \/ return_unpack_error
    \/ \E e \in Engines : return_remote_error(e)
    \/ simple_predictive_sample
    \/ impute
    \/ impute_and_confidence

Spec == Init /\ [][Next]_vars

\* an engine is a running process: it goes on serving the messages in its
\* queue, so every task sent to it completes, by returning or by raising
EngineServes(e) ==
    engine_push(e) \/ engine_run(e) \/ \E j \in 1..MaxChains : engine_raise(e, j)

\* the caller's thread, blocked in the iteration over the map result, goes
\* on as soon as the iteration can yield or raise
CallerResumes == return_states \/ return_unpack_error \/ \E e \in Engines : return_remote_error(e)

FairSpec ==
    /\ Spec
    /\ \A e \in Engines : WF_vars(EngineServes(e))
    /\ WF_vars(CallerResumes)

\* ================================================================ claims
\* the call begun last has returned, with states
ReturnedOk(op) == ret.status = "ok" /\ ret.op = op /\ ret.no = call.no

\* the batch length of the call begun last
BatchLen == call.n_chains

\* C1: the seeds handed to worker tasks, over any sequence of initialize and
\* analyze calls, are strictly increasing in the order they are minted, hence
\* pairwise distinct; no two tasks of one call carry the same seed.
C1_SeedsIncrease ==
    /\ \A i, j \in 1..Len(minted) : i < j => minted[i] < minted[j]
    /\ \A i, j \in 1..Len(call.sent) : i # j => call.sent[i].seed # call.sent[j].seed

C1_Witness ==
    /\ callNo = 2
    /\ call.op = "analyze"
    /\ Len(call.sent) >= 2
    /\ Len(minted) >= Len(call.sent) + 2

C1_WitnessAfterDraw == drawn > 0 /\ call.op = "initialize" /\ Len(minted) = 3 /\ minted[1] = 1

\* C2: analyze returns the shape it was given: one pair for one pair, two
\* parallel sequences of length k for a batch of k chains (k >= 1), a batch
\* of length 1 included.
C2_AnalyzeShape ==
    ReturnedOk("analyze") =>
        IF IsSequence(call.X_L)
        THEN /\ IsSequence(ret.X_L) /\ IsSequence(ret.X_D)
             /\ Len(ret.X_L.items) = Len(call.X_L.items)
             /\ Len(ret.X_D.items) = Len(call.X_L.items)
             /\ \A i \in 1..Len(ret.X_L.items) :
                   ret.X_L.items[i].type = "dict" /\ ret.X_D.items[i].type = "rows"
        ELSE ret.X_L.type = "dict" /\ ret.X_D.type = "rows"

C2_Witness ==
    /\ ReturnedOk("analyze")
    /\ IsSequence(call.X_L)
    /\ Len(call.X_L.items) = 1
    /\ IsSequence(ret.X_L)

\* C3: initialize with n_chains = 1 returns one pair, not a sequence of length
\* 1; with n_chains = n >= 2 it returns two parallel sequences of length n
\* whose i-th elements are the result of the i-th mapped task.
C3_InitializeShape ==
    ReturnedOk("initialize") =>
        IF call.n_chains = 1
        THEN /\ ret.X_L = do_initialize(call.args[1])[1]
             /\ ret.X_D = do_initialize(call.args[1])[2]
        ELSE /\ IsSequence(ret.X_L) /\ IsSequence(ret.X_D)
             /\ Len(ret.X_L.items) = call.n_chains
             /\ Len(ret.X_D.items) = call.n_chains
             /\ \A i \in 1..call.n_chains :
                   /\ ret.X_L.items[i] = do_initialize(call.args[i])[1]
                   /\ ret.X_D.items[i] = do_initialize(call.args[i])[2]

C3_Witness ==
    /\ ReturnedOk("initialize")
    /\ call.n_chains = 3
    /\ Len(ret.X_L.items) = 3

C3_WitnessSingle == ReturnedOk("initialize") /\ call.n_chains = 1 /\ ret.X_L.type = "dict"

\* the batch x taken in the order p: element i is x's element p[i]
Reorder(x, p) == PySeq([i \in 1..Len(x.items) |-> x.items[p[i]]])

\* C4 as stated: analyze, from the same engine state, on the batch reordered
\* by a permutation returns the original output reordered the same way.
C4_PermutedOutput ==
    (ReturnedOk("analyze") /\ IsSequence(call.X_L)) =>
        \A p \in Permutations(1..Len(call.X_L.items)) :
            analyze_returns(call.base, Reorder(call.X_L, p), Reorder(call.X_D, p))
                = <<Reorder(ret.X_L, p), Reorder(ret.X_D, p)>>

\* C4 amended: output[i] is derived from input[i] and the seed of position i
\* alone; on the reordered batch position i holds the engine's result for
\* input[p[i]] under the seed of position i, which is the original output
\* reordered wherever p leaves the position in place.
C4_PositionalSeeds ==
    (ReturnedOk("analyze") /\ IsSequence(call.X_L)) =>
        LET k == Len(call.X_L.items)
            at(X_L, X_D, i) == do_analyze(Task(X_L.items[i], X_D.items[i], call.base + i - 1))
        IN  /\ \A i \in 1..k :
                  <<ret.X_L.items[i], ret.X_D.items[i]>> = at(call.X_L, call.X_D, i)
            /\ \A p \in Permutations(1..k) :
                  LET X_Lp == Reorder(call.X_L, p)
                      X_Dp == Reorder(call.X_D, p)
                      outp == analyze_returns(call.base, X_Lp, X_Dp)
                  IN  /\ Len(outp[1].items) = k /\ Len(outp[2].items) = k
                      /\ \A i \in 1..k :
                            /\ <<outp[1].items[i], outp[2].items[i]>> = at(X_Lp, X_Dp, i)
                            /\ p[i] = i => /\ outp[1].items[i] = ret.X_L.items[i]
                                           /\ outp[2].items[i] = ret.X_D.items[i]

C4_Witness ==
    /\ ReturnedOk("analyze")
    /\ IsSequence(call.X_L)
    /\ Len(call.X_L.items) = 3
    /\ call.X_L.items[1] # call.X_L.items[2]

\* C5: analyze given a latent sequence and a partition sequence of unequal
\* length fails with InputShapeError and dispatches nothing: no task of the
\* call reaches any engine's queue.
C5_NoDispatchOnShapeError ==
    (/\ call.op = "analyze"
     /\ IsSequence(call.X_L)
     /\ IsSequence(call.X_D)
     /\ Len(call.X_L.items) # Len(call.X_D.items)) =>
        /\ ret.no = call.no
        /\ ret.status = "error"
        /\ ret.error = "InputShapeError"
        /\ pc = "idle"
        /\ call.sent = <<>>
        /\ \A e \in Engines : \A i \in DOMAIN queue[e] :
              ~(queue[e][i].kind = "map" /\ queue[e][i].call = call.no)
        /\ \A e \in Engines : res[e].st = "none"

C5_Witness ==
    /\ call.op = "analyze"
    /\ IsSequence(call.X_L)
    /\ Len(call.X_L.items) = 2
    /\ Len(call.X_D.items) = 3
    /\ ret.error = "InputShapeError"
    /\ ret.no = call.no

\* the positions, in the argument list, of the chunk sent to engine e
ChunkPositions(e) ==
    LET part == GetPartition(Len(call.args), e - 1, NumEngines)
    IN  (part.lo + 1)..part.hi

\* the call begun last ended with a task's exception
FailedRemotely == ret.no = call.no /\ ret.status = "error" /\ ret.error = "RemoteError"

InputChain(i) ==
    IF IsSequence(call.X_L)
    THEN <<call.X_L.items[i], call.X_D.items[i]>>
    ELSE <<call.X_L, call.X_D>>

\* the number of chains the caller asked the call begun last to run
InputLen ==
    IF call.op = "initialize" THEN call.n_chains
    ELSE IF call.op # "analyze" THEN 0
    ELSE IF ~IsSequence(call.X_L) THEN 1
    ELSE IF IsSequence(call.X_D) /\ Len(call.X_D.items) = Len(call.X_L.items)
         THEN Len(call.X_L.items)
         ELSE 0

\* C7: a call with n chains on an engine whose counter is at s dispatches
\* exactly n tasks with the seeds s, s+1, ..., s+n-1 in task order, task i of
\* analyze carrying state i; from seed base 0, initialize with 3 chains
\* dispatches the seeds 0, 1, 2 and analyze on the resulting batch of 3
\* dispatches its 3 states with the seeds 3, 4, 5.
C7_SeedsFromCounter ==
    /\ Len(call.sent) = InputLen
    /\ \A i \in 1..Len(call.sent) :
          /\ call.sent[i].seed = call.base + i - 1
          /\ call.op = "analyze" =>
                <<call.sent[i].X_L, call.sent[i].X_D>> = InputChain(i)
          /\ call.op = "initialize" =>
                call.sent[i].X_L = NoValue /\ call.sent[i].X_D = NoValue
    /\ (call.op = "initialize" /\ call.base = 0 /\ call.n_chains = 3) =>
          call.sent = <<Task(NoValue, NoValue, 0), Task(NoValue, NoValue, 1),
                        Task(NoValue, NoValue, 2)>>
    /\ (/\ call.op = "analyze" /\ call.base = 3
        /\ call.X_L = PySeq(<<Dict(<<0>>), Dict(<<1>>), Dict(<<2>>)>>)
        /\ call.X_D = PySeq(<<Rows(<<0>>), Rows(<<1>>), Rows(<<2>>)>>)) =>
          call.sent = <<Task(Dict(<<0>>), Rows(<<0>>), 3), Task(Dict(<<1>>), Rows(<<1>>), 4),
                        Task(Dict(<<2>>), Rows(<<2>>), 5)>>

C7_Witness ==
    /\ call.op = "analyze"
    /\ call.base = 3
    /\ call.X_L = PySeq(<<Dict(<<0>>), Dict(<<1>>), Dict(<<2>>)>>)
    /\ call.seeds = <<3, 4, 5>>
    /\ Len(TasksOf(queue, call.no, 1)) = 3

\* engine e takes a chunk of tasks from its queue and begins to execute it
Serves(e) ==
    /\ queue[e] # <<>>
    /\ Head(queue[e]).kind = "map"
    /\ queue'[e] = Tail(queue[e])

\* the engines that hold the push of call c in their queue, not yet served
PushQueued(c) ==
    {e \in Engines : \E i \in DOMAIN queue[e] :
        queue[e][i].kind = "push" /\ queue[e][i].call = c}

\* C8 as stated: no task begins executing on any worker before the push of
\* its call's shared context has completed on all workers.
C8_PushCompleteEverywhere ==
    [][\A e \in Engines : Serves(e) => Pushed(Head(queue[e]).call) = Engines]_vars

\* C8 amended: no task begins executing on a worker before that worker has
\* applied the push of the task's call, and by then the push has been sent to
\* every worker (applied there, or waiting in its queue ahead of the tasks).
C8_PushBeforeOwnTasks ==
    [][\A e \in Engines : Serves(e) =>
          LET c == Head(queue[e]).call
          IN  /\ e \in Pushed(c)
              /\ \A n \in EntryReads(Head(queue[e]).f) : ns[e][n] = c
              /\ \A d \in Engines : d \in Pushed(c) \/ d \in PushQueued(c)]_vars

C8_Witness ==
    \E e, d \in Engines :
        /\ res[e].st = "ok"
        /\ d \notin Pushed(call.no)
        /\ d \in PushQueued(call.no)
        /\ res[d].st = "pending"

\* C9: for every call that dispatches, the seeds minted by the call, the
\* batch and the tasks handed to the pool are equally many; task i carries
\* seed i of the call, and every seed the generator gave out was handed to a
\* task or drawn by a local method.
C9_SeedCountIsBatchLen ==
    /\ Len(call.seeds) = InputLen
    /\ Len(call.sent) = InputLen
    /\ \A i \in 1..Len(call.sent) : call.sent[i].seed = call.seeds[i]
    /\ seed_generator = DefaultSeed + Len(minted) + drawn

C9_Witness ==
    /\ call.op = "analyze"
    /\ IsSequence(call.X_L)
    /\ Len(call.X_L.items) = 2
    /\ Len(call.seeds) = 2
    /\ Len(TasksOf(queue, call.no, 1)) = 2

\* the chain batch the call begun last normalised its input to
InputPairs == [i \in 1..Len(call.args) |-> <<call.args[i].X_L, call.args[i].X_D>>]

\* the round trip of one caller input through normalize and denormalize
RoundTrip(X_L, X_D) ==
    LET norm == ensure_multistate(X_L, X_D)
    IN  norm.error = "none" =>
            analyze_collapse(norm.X_L_list, norm.X_D_list, norm.was_multistate) = <<X_L, X_D>>

\* C10: normalizing a valid input (one pair, or two sequences of equal
\* length) and denormalizing the batch with the same was-scalar flag gives
\* the input back.
C10_NormalizeDenormalize ==
    /\ \A input \in AnalyzeInputs : RoundTrip(input[1], input[2])
    /\ call.op = "analyze" =>
          /\ RoundTrip(call.X_L, call.X_D)
          /\ ensure_multistate(call.X_L, call.X_D).error = "none" =>
                analyze_collapse(UnzipFirst(InputPairs), UnzipSecond(InputPairs),
                                 call.was_multistate) = <<call.X_L, call.X_D>>

C10_Witness ==
    /\ call.op = "analyze"
    /\ IsSequence(call.X_L)
    /\ Len(call.X_L.items) = 1
    /\ Len(call.X_D.items) = 1
    /\ call.was_multistate
    /\ \E input \in AnalyzeInputs : ~IsSequence(input[1])

\* the pushes of call c that engine e was sent: those waiting in its queue,
\* and the one it served if its namespace holds that call's context
PushesOf(c, e) ==
    Cardinality({i \in DOMAIN queue[e] : queue[e][i].kind = "push" /\ queue[e][i].call = c})
    + (IF ns[e]["M_c"] = c THEN 1 ELSE 0)

\* C11: in every initialize and analyze call the shared context goes to the
\* worker pool exactly once (one push per engine, whatever the number of
\* chains), and a dispatched task argument carries the chain's state, if
\* any, and the seed, and nothing of the shared context.
C11_ContextPushedOnce ==
    /\ call.op # "none" => \A e \in Engines : PushesOf(call.no, e) = 1
    /\ \A e \in Engines : \A c \in 1..callNo : PushesOf(c, e) <= 1
    /\ \A e \in Engines : \A i \in DOMAIN queue[e] :
          LET m == queue[e][i]
          IN  /\ m.kind = "push" =>
                    /\ m.args = <<>>
                    /\ m.names \in {InitializeNames, AnalyzeNames}
                    /\ m.call = call.no =>
                          m.names = IF call.op = "initialize" THEN InitializeNames
                                    ELSE AnalyzeNames
              /\ m.kind = "map" =>
                    /\ m.names = {}
                    /\ \A k \in DOMAIN m.args :
                          /\ DOMAIN m.args[k] = {"X_L", "X_D", "seed"}
                          /\ m.args[k].seed \in Nat
                          /\ IF m.f = "do_initialize"
                             THEN m.args[k].X_L = NoValue /\ m.args[k].X_D = NoValue
                             ELSE m.args[k].X_L.type = "dict" /\ m.args[k].X_D.type = "rows"

C11_Witness ==
    /\ call.op = "analyze"
    /\ Len(call.sent) = 3
    /\ \E e, d \in Engines :
          /\ ns[e]["M_c"] = call.no
          /\ res[e].st = "pending"
          /\ d \in PushQueued(call.no)
          /\ \E i \in DOMAIN queue[d] : queue[d][i].kind = "map" /\ queue[d][i].call = call.no

C11_WitnessNoChains == call.op = "initialize" /\ call.n_chains = 0 /\ PushQueued(call.no) = Engines

\* chain_tuples: the per-chain results of the call begun last, as the
\* iteration over the map result yields them
Results == Gather(res, 1)

\* the call begun last went through the assembly of its results: it is
\* over, and neither the shape check nor a task ended it earlier
Assembled ==
    /\ pc = "idle"
    /\ call.op # "none"
    /\ ret.no = call.no
    /\ ret.error \notin {"InputShapeError", "RemoteError"}

\* the assembled output holds exactly the results, in their order
KeepsAll ==
    LET collapsed == IF call.op = "initialize" THEN call.n_chains = 1
                     ELSE ~call.was_multistate
    IN  IF collapsed
        THEN Len(Results) = 1 /\ <<ret.X_L, ret.X_D>> = Results[1]
        ELSE /\ IsSequence(ret.X_L) /\ IsSequence(ret.X_D)
             /\ Len(ret.X_L.items) = Len(Results)
             /\ Len(ret.X_D.items) = Len(Results)
             /\ \A i \in 1..Len(Results) :
                   <<ret.X_L.items[i], ret.X_D.items[i]>> = Results[i]

\* C12: result assembly never reorders or filters: for every list of
\* per-chain results, of any length, the assembly gives an output of the
\* same length whose i-th latent and partition states are those of the i-th
\* result.
C12_AssemblyKeepsAll == Assembled => ret.status = "ok" /\ KeepsAll

\* C12 on the lists that have a first element: there the assembly gives the
\* output the claim describes
C12_AssemblyKeepsNonEmpty == (Assembled /\ Results # <<>>) => ret.status = "ok" /\ KeepsAll

C12_WitnessNonEmpty == Assembled /\ Len(Results) = 3 /\ call.op = "analyze"

\* every task the call begun last dispatched has completed: none waits in a
\* queue and every chunk is back
TasksCompleted ==
    /\ \A e \in Engines : \A i \in DOMAIN queue[e] :
          ~(queue[e][i].kind = "map" /\ queue[e][i].call = call.no)
    /\ \A e \in Engines : res[e].st # "pending"

\* C13: an initialize or analyze call is synchronous: it returns a result to
\* the caller only after every task it dispatched has completed, and, the
\* engines serving their queues so that every dispatched task completes, a
\* call that waits for its tasks eventually ends and hands control back to
\* the caller (with the states, or with the error it raises).
C13_Synchronous ==
    /\ []((ret.no = call.no /\ ret.status = "ok") =>
            /\ TasksCompleted
            /\ Len(call.sent) >= 1
            /\ Len(Results) = Len(call.sent))
    /\ []((pc = "idle" /\ ret.no = call.no /\ Results # <<>>
            /\ \A e \in Engines : res[e].st \in {"ok", "none"}) => ret.status = "ok")
    /\ ((pc = "waiting") ~> (pc = "idle" /\ ret.no = call.no))

C13_Witness ==
    /\ pc = "idle"
    /\ ret.no = call.no
    /\ ret.status = "ok"
    /\ Len(call.sent) = 3
    /\ \A e \in Engines : res[e].st = "ok" /\ queue[e] = <<>>

\* the chains of a returned value, one pair or a batch
ReturnedChains(r) ==
    IF IsSequence(r.X_L) THEN Chains(r.X_L.items, r.X_D.items)
    ELSE <<[L |-> r.X_L, D |-> r.X_D]>>

\* C14: analyze never changes the states the caller passed in: they are the
\* caller's own when the call begins, stay as they were through the call and
\* after it, ended with states or with an error, and the states the caller
\* holds change only by the caller taking the value a call returned.
C14_InputsUntouched ==
    [][/\ call'.no = call.no => call'.X_L = call.X_L /\ call'.X_D = call.X_D
       /\ (call'.no # call.no /\ call'.op = "analyze") =>
              /\ held' = held
              /\ <<call'.X_L, call'.X_D>> \in AnalyzeInputs
       /\ (call.op = "analyze" /\ pc = "waiting" /\ ret'.status = "error") => held' = held
       /\ held' # held =>
              /\ pc = "waiting" /\ pc' = "idle"
              /\ ret'.status = "ok" /\ ret'.no = call.no
              /\ held' = ReturnedChains(ret')]_vars

C14_Witness ==
    /\ FailedRemotely
    /\ call.op = "analyze"
    /\ IsSequence(call.X_L)
    /\ Len(call.X_L.items) = 2
    /\ <<call.X_L, call.X_D>> \in AnalyzeInputs
    /\ \E e \in Engines : res[e].st = "ok"

C14_WitnessReturned ==
    /\ ReturnedOk("analyze")
    /\ ~IsSequence(call.X_L)
    /\ ret.X_L # call.X_L
    /\ held = <<[L |-> ret.X_L, D |-> ret.X_D]>>

\* the call begun last has failed and nothing was called since
FailedLast ==
    /\ pc = "idle"
    /\ callNo = call.no
    /\ ret.no = call.no
    /\ ret.status = "error"

\* the seeds handed to tasks before the call begun last
MintedBefore == SubSeq(minted, 1, Len(minted) - Len(call.seeds))

\* C15: the seed counter is not rolled back on failure: when a call has
\* failed the counter stands advanced by the number of seeds minted for it,
\* every seed ever handed out, by failed calls too, lies below the counter,
\* and the seeds of a call, a retry of a failed call included, differ from
\* all the seeds handed out before it.
C15_CounterKeptOnFailure ==
    /\ FailedLast => seed_generator = call.base + Len(call.seeds)
    /\ \A i \in 1..Len(minted) : minted[i] < seed_generator
    /\ Len(minted) >= Len(call.seeds)
    /\ \A i \in 1..Len(call.seeds) :
          /\ call.seeds[i] >= call.base
          /\ \A j \in 1..Len(MintedBefore) : MintedBefore[j] # call.seeds[i]
    /\ \A j \in 1..Len(MintedBefore) : MintedBefore[j] < call.base

C15_Witness ==
    /\ call.no = 2
    /\ call.op = "initialize"
    /\ call.n_chains = 3
    /\ ret.no = 1
    /\ ret.op = "initialize"
    /\ ret.error = "RemoteError"
    /\ MintedBefore = <<0, 1, 2>>
    /\ call.seeds = <<3, 4, 5>>

C15_WitnessFailed == FailedLast /\ ret.error = "RemoteError" /\ seed_generator = 3 /\ call.base = 0

\* the call whose push binds name n in engine e's namespace when the engine
\* gets to the i-th message of its queue: the last push ahead of it that
\* carries n, or else the binding the namespace holds now (0: unbound)
ContextAt(e, i, n) ==
    LET ahead == {j \in 1..(i - 1) : queue[e][j].kind = "push" /\ n \in queue[e][j].names}
    IN  IF ahead = {} THEN ns[e][n]
        ELSE queue[e][CHOOSE j \in ahead : \A k \in ahead : k <= j].call

\* C16: over any sequence of initialize and analyze calls on one engine,
\* every shared name an entry point reads (M_c, M_r, T, initialization in
\* do_initialize; M_c, T, kernel_list, n_steps, c, r, max_iterations,
\* max_time in do_analyze) is bound by the push of the call the task belongs
\* to when the task runs, never by an earlier call's.
C16_ReadsOwnPush ==
    /\ \A e \in Engines : \A i \in DOMAIN queue[e] :
          queue[e][i].kind = "map" =>
              \A n \in EntryReads(queue[e][i].f) : ContextAt(e, i, n) = queue[e][i].call
    /\ \A e \in Engines : res[e].st \in {"ok", "error"} => res[e].reads = {call.no}

C16_Witness ==
    /\ call.no = 2
    /\ call.op = "analyze"
    /\ \E e \in Engines :
          /\ res[e].st = "ok"
          /\ res[e].reads = {2}
          /\ ns[e]["M_r"] = 1
          /\ ns[e]["M_c"] = 2

C16_WitnessStale ==
    /\ call.no = 2
    /\ \E e \in Engines : \E i, j \in DOMAIN queue[e] :
          /\ i < j
          /\ queue[e][i].kind = "map" /\ queue[e][i].call = 1
          /\ queue[e][j].kind = "push" /\ queue[e][j].call = 2
          /\ queue[e][j].names # InitializeNames

====
